---------------------------- MODULE Spec2Model ----------------------------
(***************************************************************************)
(* cwnote: adds a vertical annotation to the metric widgets of CloudWatch  *)
(* dashboards.  The model follows src/src/annotate.rs and src/src/main.rs. *)
(*                                                                         *)
(* A serde_json Value is a record [k |-> kind, v |-> payload]:             *)
(*   null  : [k |-> "null"]                                                *)
(*   bool  : [k |-> "bool", v |-> BOOLEAN]                                 *)
(*   number: [k |-> "num",  v |-> Int]                                     *)
(*   string: [k |-> "str",  v |-> sequence of one-character strings]       *)
(*   array : [k |-> "arr",  v |-> sequence of Values]                      *)
(*   object: [k |-> "obj",  v |-> function from key names to Values]       *)
(* Rust's Option<T> is NoneVal or Some(x); a Value met under Option (the     *)
(* result of Value::get) is NoneVal or the Value itself.                   *)
(***************************************************************************)
EXTENDS Integers, Sequences, FiniteSets, TLC

VARIABLES
    \* --- the transform, called repeatedly on one in-memory document
    body,               \* annotate.rs: `body: &mut Value`
    selector,           \* annotate.rs: `selector: &WidgetSelector`
    ann_obj,            \* the `ann_obj` passed to the last call (NoneVal before it)
    widgets_annotated,  \* the value the last call returned
    panicked,           \* an `expect` of the last call failed: the thread unwinds
    body_before,        \* history: `body` as it was when the last call started
    orig_body,          \* history: `body` as it was constructed
    applied,            \* history: the `ann_obj` of every call that returned
    \* --- WidgetSelector::matches called on one widget
    widget_obj,         \* annotate.rs: `widget_obj: &Map<String, Value>`
    match_called,       \* matches has been called and has returned
    match_result,       \* the bool it returned
    \* --- list_dashboards_with_suffix
    suffix,             \* annotate.rs: `suffix: &str`
    next_token,         \* annotate.rs: `next_token: Option<String>`
    result,             \* annotate.rs: `result: Vec<String>`
    list_pc,            \* "idle", "loop" (before a request), "wait" (request sent),
                        \* "done" (Ok), "failed" (Err)
    requests,           \* history: the token sent with each list_dashboards request
    served,             \* history: the page each request was answered with
    \* --- run_with_client: one run of the tool against the dashboard store
    opts,               \* cli.rs: AnnotateOpts
    store,              \* the backend: dashboard name -> stored body (or NoBody)
    store0,             \* history: the store when the run started
    pc,                 \* "main", "usage", "start", "list", "get", "put", "ok",
                        \* "error", "panic"
    dashboards,         \* annotate.rs: `dashboards`, the names to process
    idx,                \* position of the `for name in dashboards` loop
    clock,              \* Utc::now(), in ticks
    updated_body,       \* annotate.rs: `updated_body`, sent with put_dashboard
    get_calls,          \* history: the name of each get_dashboard call
    put_calls,          \* history: each put_dashboard call, [name, body, ok]
    exports,            \* history: each export file written, [name, fname, content]
    reports,            \* history: each outcome logged, [name, kind, count]
    other_writes        \* history: each body another writer stored, [name, body, at]

apply_vars == <<body, selector, ann_obj, widgets_annotated, panicked,
                body_before, orig_body, applied>>

match_vars == <<widget_obj, match_called, match_result>>

list_vars == <<suffix, next_token, result, list_pc, requests, served>>

run_vars == <<opts, store, store0, pc, dashboards, idx, clock, updated_body,
              get_calls, put_calls, exports, reports, other_writes>>

vars == <<apply_vars, match_vars, list_vars, run_vars>>

-----------------------------------------------------------------------------
(* Bounds of the model. *)

MaxWidgets == 2     \* longest `widgets` array drawn
MaxCalls == 2       \* most calls of apply_annotation_to_body on one document
MaxTitleLen == 2    \* longest title and longest title filter drawn
MaxPages == 3       \* most list_dashboards requests of one discovery
MaxListed == 2      \* most names a backend that never ends its listing has served
MaxOtherWrites == 2 \* most writes of another writer during one run

-----------------------------------------------------------------------------
(* serde_json::Value *)

NoneVal == [k |-> "none"]
Some(x) == [k |-> "some", v |-> x]

Null == [k |-> "null"]
JStr(s) == [k |-> "str", v |-> s]
JNum(n) == [k |-> "num", v |-> n]
JArr(s) == [k |-> "arr", v |-> s]
JObj(f) == [k |-> "obj", v |-> f]

EmptyMap == [x \in {} |-> Null]

is_object(val) == val.k = "obj"
is_array(val) == val.k = "arr"
is_string(val) == val.k = "str"

\* Value::get(&str): Some only on an object that holds the key.
get(val, key) ==
    IF val = NoneVal THEN NoneVal                \* Option::and_then on None
    ELSE IF is_object(val) /\ key \in DOMAIN val.v THEN val.v[key]
    ELSE NoneVal

\* Value::as_str under Option::and_then.
as_str(val) ==
    IF val = NoneVal THEN NoneVal
    ELSE IF is_string(val) THEN Some(val.v)
    ELSE NoneVal

\* Value::as_array under Option::and_then.
as_array(val) ==
    IF val = NoneVal THEN NoneVal
    ELSE IF is_array(val) THEN Some(val.v)
    ELSE NoneVal

\* Option::unwrap_or
unwrap_or(opt, default) == IF opt = NoneVal THEN default ELSE opt.v

\* Mutant of insert: the map is replaced by one that holds the key alone.
insert_alone(obj, key, val) == JObj([x \in {key} |-> val])

\* Map::insert
insert(obj, key, val) ==
    JObj([x \in (DOMAIN obj.v) \cup {key} |-> IF x = key THEN val ELSE obj.v[x]])

\* Map::entry(key).or_insert_with(default): the map with the key present.
entry_or_insert(obj, key, default) ==
    IF key \in DOMAIN obj.v THEN obj ELSE insert(obj, key, default)

-----------------------------------------------------------------------------
(* str::contains and str::ends_with on sequences of characters. *)

\* Mutant of ends_with: the pattern is looked for at the start.
starts_with(s, pat) ==
    Len(pat) <= Len(s) /\ SubSeq(s, 1, Len(pat)) = pat

\* str::ends_with(pat)
ends_with(s, pat) ==
    Len(pat) <= Len(s) /\ SubSeq(s, Len(s) - Len(pat) + 1, Len(s)) = pat

\* Mutant of contains: the pattern is looked for at the start only.
contains_at_start(hay, pat) ==
    Len(pat) <= Len(hay) /\ SubSeq(hay, 1, Len(pat)) = pat

\* str::contains(pat): some window of the haystack equals the pattern.
RECURSIVE contains_from(_, _, _)
contains_from(hay, pat, i) ==
    IF i + Len(pat) - 1 > Len(hay) THEN FALSE
    ELSE IF SubSeq(hay, i, i + Len(pat) - 1) = pat THEN TRUE
    ELSE contains_from(hay, pat, i + 1)

contains(hay, pat) == contains_from(hay, pat, 1)

-----------------------------------------------------------------------------
(* WidgetSelector::matches *)

\* WidgetSelector { title_contains: Option<String> }
WidgetSelector(title_contains) == [title_contains |-> title_contains]

\* The title the filter is compared with: properties.title if it is a string,
\* otherwise "".
title_of(wobj) ==
    unwrap_or(as_str(get(get(wobj, "properties"), "title")), <<>>)

matches(sel, wobj) ==
    IF sel.title_contains # NoneVal
    THEN IF ~contains(title_of(wobj), sel.title_contains.v) THEN FALSE ELSE TRUE
    ELSE TRUE

-----------------------------------------------------------------------------
(* apply_annotation_to_body *)

StrMetric == <<"m", "e", "t", "r", "i", "c">>

\* Mutant of is_metric: a widget without a type field counts as a metric widget.
is_metric_or_untyped(wobj) ==
    \/ get(wobj, "type") = NoneVal
    \/ as_str(get(wobj, "type")) = Some(StrMetric)

\* wobj.get("type").and_then(|t| t.as_str()) == Some("metric")
is_metric(wobj) == as_str(get(wobj, "type")) = Some(StrMetric)

\* Mutant of push: the element goes to the front.
push_front(arr, x) == JArr(<<x>> \o arr.v)

\* Mutant of push: an element equal to one of the array is not added again.
push_dedup(arr, x) ==
    IF \E i \in DOMAIN arr.v : arr.v[i] = x THEN arr ELSE JArr(Append(arr.v, x))

\* Vec::push
push(arr, x) == JArr(Append(arr.v, x))

\* Mutant of annotate_widget: a node of another type on the path is replaced
\* by a fresh container.
annotate_widget_overwrites(wobj, ann) ==
    LET props == IF "properties" \in DOMAIN wobj.v /\ is_object(wobj.v["properties"])
                 THEN wobj.v["properties"] ELSE JObj(EmptyMap)
        anns == IF "annotations" \in DOMAIN props.v /\ is_object(props.v["annotations"])
                THEN props.v["annotations"] ELSE JObj(EmptyMap)
        vertical == IF "vertical" \in DOMAIN anns.v /\ is_array(anns.v["vertical"])
                    THEN anns.v["vertical"] ELSE JArr(<<>>)
    IN  [widget |-> insert(wobj, "properties",
                      insert(props, "annotations",
                        insert(anns, "vertical", push(vertical, ann)))),
         panicked |-> FALSE]

\* The body of the loop for a widget that is a metric widget and is selected.
\* Gives the widget afterwards and whether an `expect` panicked.
annotate_widget(wobj, ann) ==
    LET w1 == entry_or_insert(wobj, "properties", JObj(EmptyMap))
        props_val == w1.v["properties"]
    IN  IF ~is_object(props_val)                 \* expect("properties should be object")
        THEN [widget |-> w1, panicked |-> TRUE]
        ELSE
    LET p1 == entry_or_insert(props_val, "annotations", JObj(EmptyMap))
        anns_val == p1.v["annotations"]
    IN  IF ~is_object(anns_val)                  \* expect("annotations should be object")
        THEN [widget |-> insert(w1, "properties", p1), panicked |-> TRUE]
        ELSE
    LET a1 == entry_or_insert(anns_val, "vertical", JArr(<<>>))
        vertical_val == a1.v["vertical"]
    IN  IF ~is_array(vertical_val)               \* expect("vertical should be array")
        THEN [widget |-> insert(w1, "properties", insert(p1, "annotations", a1)),
              panicked |-> TRUE]
        ELSE
    LET a2 == insert(a1, "vertical", push(vertical_val, ann))
    IN  [widget |-> insert(w1, "properties", insert(p1, "annotations", a2)),
         panicked |-> FALSE]

\* Mutant of visit_widget: the selector is not asked.
visit_widget_unselected(widget, ann, sel) ==
    IF ~is_object(widget) THEN [widget |-> widget, hit |-> FALSE, panicked |-> FALSE]
    ELSE IF ~is_metric(widget) THEN [widget |-> widget, hit |-> FALSE, panicked |-> FALSE]
    ELSE LET r == annotate_widget(widget, ann)
         IN  [widget |-> r.widget, hit |-> ~r.panicked, panicked |-> r.panicked]

\* One iteration of `for widget in widgets.iter_mut()`.
\* hit: the widget was annotated (widgets_annotated += 1).
visit_widget(widget, ann, sel) ==
    IF ~is_object(widget) THEN [widget |-> widget, hit |-> FALSE, panicked |-> FALSE]
    ELSE IF ~is_metric(widget) THEN [widget |-> widget, hit |-> FALSE, panicked |-> FALSE]
    ELSE IF ~matches(sel, widget) THEN [widget |-> widget, hit |-> FALSE, panicked |-> FALSE]
    ELSE LET r == annotate_widget(widget, ann)
         IN  [widget |-> r.widget, hit |-> ~r.panicked, panicked |-> r.panicked]

\* Mutant of apply_loop: every widget visited is counted.
RECURSIVE apply_loop_count_visited(_, _, _, _, _)
apply_loop_count_visited(widgets, i, n, ann, sel) ==
    IF i > Len(widgets)
    THEN [widgets |-> widgets, count |-> n, panicked |-> FALSE]
    ELSE LET r == visit_widget(widgets[i], ann, sel)
             ws == [widgets EXCEPT ![i] = r.widget]
         IN  IF r.panicked
             THEN [widgets |-> ws, count |-> n, panicked |-> TRUE]
             ELSE apply_loop_count_visited(ws, i + 1, n + 1, ann, sel)

\* The loop from widget i on, with n widgets annotated so far.  A panic ends it:
\* the widgets before it are annotated, the ones after it are not visited.
RECURSIVE apply_loop(_, _, _, _, _)
apply_loop(widgets, i, n, ann, sel) ==
    IF i > Len(widgets)
    THEN [widgets |-> widgets, count |-> n, panicked |-> FALSE]
    ELSE LET r == visit_widget(widgets[i], ann, sel)
             ws == [widgets EXCEPT ![i] = r.widget]
         IN  IF r.panicked
             THEN [widgets |-> ws, count |-> n, panicked |-> TRUE]
             ELSE apply_loop(ws, i + 1, IF r.hit THEN n + 1 ELSE n, ann, sel)

\* Mutant of widgets_of: an object without a widgets field gets an empty one.
widgets_of_or_empty(doc) ==
    IF is_object(doc) /\ "widgets" \notin DOMAIN doc.v
    THEN Some(<<>>)
    ELSE as_array(get(doc, "widgets"))

\* body.get_mut("widgets").and_then(|w| w.as_array_mut())
widgets_of(doc) == as_array(get(doc, "widgets"))

\* Mutant of apply_annotation_to_body: the widgets are annotated in a copy, the
\* document passed in stays as it was.
apply_annotation_on_copy(doc, ann, sel) ==
    LET widgets == widgets_of(doc)
    IN  IF widgets = NoneVal
        THEN [body |-> doc, count |-> 0, panicked |-> FALSE]
        ELSE LET r == apply_loop(widgets.v, 1, 0, ann, sel)
             IN  [body |-> doc, count |-> r.count, panicked |-> r.panicked]

\* apply_annotation_to_body(&mut body, &ann_obj, selector) -> usize
\* Gives the body afterwards, the count returned and whether the call panicked.
apply_annotation_to_body(doc, ann, sel) ==
    LET widgets == widgets_of(doc)
    IN  IF widgets = NoneVal
        THEN [body |-> doc, count |-> 0, panicked |-> FALSE]
        ELSE LET r == apply_loop(widgets.v, 1, 0, ann, sel)
             IN  [body |-> insert(doc, "widgets", JArr(r.widgets)),
                  count |-> r.count, panicked |-> r.panicked]

-----------------------------------------------------------------------------
(* The wire form of a dashboard body: JSON text as a sequence of tokens.    *)
(* A token is [k |-> kind] for punctuation, white space and the literals,   *)
(* [k |-> "key", v |-> name] for the string of an object key,               *)
(* [k |-> "str", v |-> characters] and [k |-> "num", v |-> n].              *)

Tok(kind) == [k |-> kind]
TokKey(name) == [k |-> "key", v |-> name]
TokStr(chars) == [k |-> "str", v |-> chars]
TokNum(n) == [k |-> "num", v |-> n]

JBool(b) == [k |-> "bool", v |-> b]

\* The keys of the documents, in the order of serde_json's Map (a BTreeMap:
\* sorted by key).
KeyOrder ==
    << "annotations", "horizontal", "label", "markdown", "metrics", "properties",
       "start", "title", "type", "value", "vertical", "widgets" >>

\* serde_json::to_string: compact, the keys of an object in Map order.
RECURSIVE to_string(_), to_string_elements(_, _), to_string_members(_, _, _)
to_string(val) ==
    CASE val.k = "null" -> << Tok("null") >>
      [] val.k = "bool" -> << Tok(IF val.v THEN "true" ELSE "false") >>
      [] val.k = "num"  -> << TokNum(val.v) >>
      [] val.k = "str"  -> << TokStr(val.v) >>
      [] val.k = "arr"  -> << Tok("[") >> \o to_string_elements(val.v, 1) \o << Tok("]") >>
      [] val.k = "obj"  -> << Tok("{") >> \o to_string_members(val.v, 1, TRUE) \o << Tok("}") >>

to_string_elements(elems, i) ==
    IF i > Len(elems) THEN <<>>
    ELSE (IF i > 1 THEN << Tok(",") >> ELSE <<>>)
         \o to_string(elems[i]) \o to_string_elements(elems, i + 1)

to_string_members(map, n, first) ==
    IF n > Len(KeyOrder) THEN <<>>
    ELSE IF KeyOrder[n] \notin DOMAIN map THEN to_string_members(map, n + 1, first)
    ELSE (IF first THEN <<>> ELSE << Tok(",") >>)
         \o << TokKey(KeyOrder[n]), Tok(":") >> \o to_string(map[KeyOrder[n]])
         \o to_string_members(map, n + 1, FALSE)

\* serde_json::from_str: the result of a parse is
\* [ok |-> TRUE, val |-> Value, next |-> index after it] or ParseErr.
ParseErr == [ok |-> FALSE, val |-> Null, next |-> 0]
ParseOk(val, next) == [ok |-> TRUE, val |-> val, next |-> next]

\* The index of the first token at or after i that is not white space.
RECURSIVE skip_ws(_, _)
skip_ws(toks, i) ==
    IF i <= Len(toks) /\ toks[i].k = "ws" THEN skip_ws(toks, i + 1) ELSE i

RECURSIVE parse_value(_, _), parse_elements(_, _, _), parse_members(_, _, _)
parse_value(toks, i0) ==
    LET i == skip_ws(toks, i0)
    IN  IF i > Len(toks) THEN ParseErr
        ELSE CASE toks[i].k = "null"  -> ParseOk(Null, i + 1)
               [] toks[i].k = "true"  -> ParseOk(JBool(TRUE), i + 1)
               [] toks[i].k = "false" -> ParseOk(JBool(FALSE), i + 1)
               [] toks[i].k = "num"   -> ParseOk(JNum(toks[i].v), i + 1)
               [] toks[i].k = "str"   -> ParseOk(JStr(toks[i].v), i + 1)
               [] toks[i].k = "["     ->
                    LET j == skip_ws(toks, i + 1)
                    IN  IF j <= Len(toks) /\ toks[j].k = "]"
                        THEN ParseOk(JArr(<<>>), j + 1)
                        ELSE parse_elements(toks, i + 1, <<>>)
               [] toks[i].k = "{"     ->
                    LET j == skip_ws(toks, i + 1)
                    IN  IF j <= Len(toks) /\ toks[j].k = "}"
                        THEN ParseOk(JObj(EmptyMap), j + 1)
                        ELSE parse_members(toks, i + 1, JObj(EmptyMap))
               [] OTHER -> ParseErr

\* The elements of an array from token i on, `acc` read so far.
parse_elements(toks, i, acc) ==
    LET r == parse_value(toks, i)
        j == skip_ws(toks, r.next)
    IN  IF ~r.ok \/ j > Len(toks) THEN ParseErr
        ELSE IF toks[j].k = "," THEN parse_elements(toks, j + 1, Append(acc, r.val))
        ELSE IF toks[j].k = "]" THEN ParseOk(JArr(Append(acc, r.val)), j + 1)
        ELSE ParseErr

\* The members of an object from token i on, `acc` read so far; a key met
\* again replaces the value read before.
parse_members(toks, i, acc) ==
    LET j == skip_ws(toks, i)
        c == skip_ws(toks, j + 1)
    IN  IF j > Len(toks) \/ c > Len(toks) THEN ParseErr
        ELSE IF toks[j].k # "key" \/ toks[c].k # ":" THEN ParseErr
        ELSE LET r == parse_value(toks, c + 1)
                 e == skip_ws(toks, r.next)
             IN  IF ~r.ok \/ e > Len(toks) THEN ParseErr
                 ELSE IF toks[e].k = ","
                      THEN parse_members(toks, e + 1, insert(acc, toks[j].v, r.val))
                 ELSE IF toks[e].k = "}"
                      THEN ParseOk(insert(acc, toks[j].v, r.val), e + 1)
                 ELSE ParseErr

\* serde_json::from_str::<Value>: one value, then only white space.
from_str(toks) ==
    LET r == parse_value(toks, 1)
    IN  IF r.ok /\ skip_ws(toks, r.next) > Len(toks) THEN r ELSE ParseErr

\* A body as a console or another tool may have stored it: white space after
\* the separators and the keys of an object in the reverse order.
RECURSIVE to_pretty(_), to_pretty_elements(_, _), to_pretty_members(_, _, _)
to_pretty(val) ==
    CASE val.k = "arr" ->
            << Tok("["), Tok("ws") >> \o to_pretty_elements(val.v, 1) \o << Tok("]") >>
      [] val.k = "obj" ->
            << Tok("{") >> \o to_pretty_members(val.v, Len(KeyOrder), TRUE)
            \o << Tok("ws"), Tok("}") >>
      [] OTHER -> to_string(val)

to_pretty_elements(elems, i) ==
    IF i > Len(elems) THEN <<>>
    ELSE (IF i > 1 THEN << Tok(","), Tok("ws") >> ELSE <<>>)
         \o to_pretty(elems[i]) \o to_pretty_elements(elems, i + 1)

to_pretty_members(map, n, first) ==
    IF n < 1 THEN <<>>
    ELSE IF KeyOrder[n] \notin DOMAIN map THEN to_pretty_members(map, n - 1, first)
    ELSE (IF first THEN <<>> ELSE << Tok(",") >>)
         \o << Tok("ws"), TokKey(KeyOrder[n]), Tok("ws"), Tok(":"), Tok("ws") >>
         \o to_pretty(map[KeyOrder[n]])
         \o to_pretty_members(map, n - 1, FALSE)

-----------------------------------------------------------------------------
(* The documents, selectors and annotation objects the transform is run on. *)

StrText == <<"t", "e", "x", "t">>

\* The `ann_obj` built by annotate_single_dashboard: {label, value}.
AnnObj(label, value) == JObj([label |-> JStr(label), value |-> JStr(value)])

Ann0 == AnnObj(<<"o", "l", "d">>, <<"0">>)   \* an annotation already in a document
Ann1 == AnnObj(<<"v", ":", " ", "1">>, <<"1">>)
Ann2 == AnnObj(<<"v", ":", " ", "2">>, <<"2">>)
AnnPool == {Ann1, Ann2}

TitleAb == JStr(<<"a", "b">>)
TitleB == JStr(<<"A", "b">>)

\* `properties` values of widgets: the nodes on the path
\* properties.annotations.vertical absent, present, or of another type.
PropsPool ==
    { Null,
      JObj(EmptyMap),
      JObj([title |-> TitleAb, metrics |-> JArr(<<>>)]),
      JObj([title |-> TitleB, metrics |-> JArr(<<>>)]),
      JObj([title |-> JNum(7)]),
      JObj([title |-> TitleAb, annotations |-> Null]),
      JObj([title |-> TitleAb, annotations |-> JObj(EmptyMap)]),
      JObj([annotations |-> JObj([vertical |-> JStr(<<"x">>)])]),
      JObj([title |-> TitleAb, annotations |-> JObj([vertical |-> JArr(<<>>)])]),
      JObj([title |-> TitleAb,
            annotations |-> JObj([horizontal |-> JArr(<<Ann0>>),
                                  vertical |-> JArr(<<Ann0>>)])]) }

WidgetPool ==
    { JObj([type |-> JStr(StrMetric), properties |-> p]) : p \in PropsPool }
    \cup
    { JObj([type |-> JStr(StrMetric)]),                       \* no properties
      JObj([type |-> JStr(StrText),
            properties |-> JObj([title |-> TitleAb, markdown |-> JStr(<<"h">>)])]),
      JObj([type |-> JStr(StrText),
            properties |-> JObj([annotations |-> JObj([vertical |-> JArr(<<Ann0>>)])])]),
      JObj([properties |-> JObj([title |-> TitleAb])]),       \* no type
      JObj([type |-> JNum(1), properties |-> JObj([title |-> TitleAb])]),
      JStr(StrMetric) }                                       \* not an object

WidgetSeqs == UNION { [1..n -> WidgetPool] : n \in 0..MaxWidgets }

BodyPool ==
    { JObj([widgets |-> JArr(ws), start |-> JStr(<<"h">>)]) : ws \in WidgetSeqs }
    \cup
    { JObj([start |-> JStr(<<"h">>)]),                        \* no widgets
      JObj([widgets |-> Null]),
      JObj([widgets |-> JObj([type |-> JStr(StrMetric)])]),   \* widgets is an object
      JArr(<<JObj([type |-> JStr(StrMetric)])>>),             \* the root is an array
      Null }

SelectorPool ==
    { WidgetSelector(NoneVal),
      WidgetSelector(Some(<<>>)),
      WidgetSelector(Some(<<"a">>)) }

-----------------------------------------------------------------------------
(* SpecApply: apply_annotation_to_body called up to MaxCalls times on one  *)
(* document, as the tests of annotate.rs call it.                          *)

\* The variables of WidgetSelector::matches, not in use.
MatchIdle ==
    /\ widget_obj = Null
    /\ match_called = FALSE
    /\ match_result = FALSE

\* The variables of list_dashboards_with_suffix, not in use.
ListIdle ==
    /\ suffix = <<>>
    /\ next_token = NoneVal
    /\ result = <<>>
    /\ list_pc = "idle"
    /\ requests = <<>>
    /\ served = <<>>

\* The variables of a run, not in use.
RunIdle ==
    /\ opts = NoneVal
    /\ other_writes = <<>>
    /\ store = <<>>
    /\ store0 = <<>>
    /\ pc = "idle"
    /\ dashboards = <<>>
    /\ idx = 0
    /\ clock = 0
    /\ updated_body = <<>>
    /\ get_calls = <<>>
    /\ put_calls = <<>>
    /\ exports = <<>>
    /\ reports = <<>>

InitApply ==
    /\ MatchIdle
    /\ ListIdle
    /\ RunIdle
    /\ body \in BodyPool
    /\ selector \in SelectorPool
    /\ ann_obj = NoneVal
    /\ widgets_annotated = 0
    /\ panicked = FALSE
    /\ body_before = body
    /\ orig_body = body
    /\ applied = <<>>

\* let count = apply_annotation_to_body(&mut body, &ann_obj, &selector);
ApplyCall(ann) ==
    /\ ~panicked
    /\ Len(applied) < MaxCalls
    /\ LET r == apply_annotation_to_body(body, ann, selector)
       IN  /\ body' = r.body
           /\ panicked' = r.panicked
           /\ widgets_annotated' = IF r.panicked THEN widgets_annotated ELSE r.count
           /\ applied' = IF r.panicked THEN applied ELSE Append(applied, ann)
    /\ ann_obj' = ann
    /\ body_before' = body
    /\ UNCHANGED <<selector, orig_body>>
    /\ UNCHANGED <<match_vars, list_vars, run_vars>>

NextApply == \E ann \in AnnPool : ApplyCall(ann)

SpecApply == InitApply /\ [][NextApply]_vars

-----------------------------------------------------------------------------
(* Properties of the transform (SpecApply). *)

\* The document holds a `widgets` field that is a sequence.
HasWidgetSeq(doc) ==
    /\ doc.k = "obj"
    /\ "widgets" \in DOMAIN doc.v
    /\ doc.v["widgets"].k = "arr"

\* The widgets of a document, none when it has no widgets sequence.
Widgets(doc) == IF HasWidgetSeq(doc) THEN doc.v["widgets"].v ELSE <<>>

\* The widget's type is the string "metric".
TypeIsMetric(w) ==
    /\ w.k = "obj"
    /\ "type" \in DOMAIN w.v
    /\ w.v["type"] = JStr(StrMetric)

\* The list at properties.annotations.vertical, empty when it is absent.
VerticalList(w) ==
    IF /\ w.k = "obj"
       /\ "properties" \in DOMAIN w.v
       /\ w.v["properties"].k = "obj"
       /\ "annotations" \in DOMAIN w.v["properties"].v
       /\ w.v["properties"].v["annotations"].k = "obj"
       /\ "vertical" \in DOMAIN w.v["properties"].v["annotations"].v
       /\ w.v["properties"].v["annotations"].v["vertical"].k = "arr"
    THEN w.v["properties"].v["annotations"].v["vertical"].v
    ELSE <<>>

\* A call of apply_annotation_to_body has been made.
Called == ann_obj # NoneVal

\* The widgets the last call had to annotate: metric widgets the selector matches.
Selected(doc) ==
    { i \in DOMAIN Widgets(doc) :
        TypeIsMetric(Widgets(doc)[i]) /\ matches(selector, Widgets(doc)[i]) }

\* C1: every widget whose type is not the string "metric" (a widget without a
\* type field included) is the same before and after apply_annotation_to_body.
C1_NonMetricUnchanged ==
    Called =>
        /\ Len(Widgets(body)) = Len(Widgets(body_before))
        /\ \A i \in DOMAIN Widgets(body_before) :
              ~TypeIsMetric(Widgets(body_before)[i])
                  => Widgets(body)[i] = Widgets(body_before)[i]

\* C1 witness: a call annotated a widget of a document that also holds a widget
\* without a type field, which the selector matches.
C1_Witness ==
    /\ Called /\ widgets_annotated > 0
    /\ \E i \in DOMAIN Widgets(body_before) :
          /\ Widgets(body_before)[i].k = "obj"
          /\ "type" \notin DOMAIN Widgets(body_before)[i].v
          /\ matches(selector, Widgets(body_before)[i])

\* C2: every metric widget for which selector.matches is false is the same
\* before and after apply_annotation_to_body.
C2_UnselectedMetricUnchanged ==
    Called =>
        \A i \in DOMAIN Widgets(body_before) :
            (TypeIsMetric(Widgets(body_before)[i])
                /\ ~matches(selector, Widgets(body_before)[i]))
              => /\ i \in DOMAIN Widgets(body)
                 /\ Widgets(body)[i] = Widgets(body_before)[i]

\* C2 witness: a call annotated one metric widget and skipped another metric
\* widget that the selector rejects.
C2_Witness ==
    /\ Called /\ widgets_annotated = 1
    /\ \E i \in DOMAIN Widgets(body_before) :
          /\ TypeIsMetric(Widgets(body_before)[i])
          /\ ~matches(selector, Widgets(body_before)[i])

\* C3 as stated: for every metric widget that matches the selector, one call
\* makes the vertical list one longer, the previous elements kept in order and
\* the annotation object last.
C3_Original ==
    Called =>
        \A i \in Selected(body_before) :
            /\ i \in DOMAIN Widgets(body)
            /\ VerticalList(Widgets(body)[i])
                 = Append(VerticalList(Widgets(body_before)[i]), ann_obj)

\* C3 amended: in a call that returns, every metric widget that matches the
\* selector has its vertical list one longer, the previous elements kept in
\* order and the annotation object last.  (The call panics instead when a
\* selected metric widget holds a properties or annotations that is not an
\* object, or a vertical that is not an array.)
C3_SelectedGetsAnnotation ==
    (Called /\ ~panicked) =>
        \A i \in Selected(body_before) :
            /\ i \in DOMAIN Widgets(body)
            /\ VerticalList(Widgets(body)[i])
                 = Append(VerticalList(Widgets(body_before)[i]), ann_obj)

\* C3 witness: a call returned after appending to a list that held an element.
C3_Witness ==
    /\ Called /\ ~panicked
    /\ \E i \in Selected(body_before) :
          /\ Len(VerticalList(Widgets(body_before)[i])) = 1
          /\ Len(VerticalList(Widgets(body)[i])) = 2

\* The widgets whose vertical list grew in the last call.
Grown ==
    { i \in DOMAIN Widgets(body_before) :
        /\ i \in DOMAIN Widgets(body)
        /\ Len(VerticalList(Widgets(body)[i]))
             > Len(VerticalList(Widgets(body_before)[i])) }

\* C4: the count returned equals the number of widgets whose vertical list grew
\* in the call, which equals the number of widgets of type "metric" that the
\* selector matches.
C4_CountIsAnnotated ==
    (Called /\ ~panicked) =>
        /\ widgets_annotated = Cardinality(Grown)
        /\ widgets_annotated = Cardinality(Selected(body_before))

\* C4 witness: a call returned 1 on a document of two widgets.
C4_Witness ==
    /\ Called /\ ~panicked
    /\ widgets_annotated = 1
    /\ Len(Widgets(body_before)) = 2

\* C5: without a widgets field, or with one that is not a sequence, the call
\* returns 0, leaves the document as it was and does not panic.
C5_NoWidgetsNoChange ==
    (Called /\ ~HasWidgetSeq(body_before)) =>
        /\ widgets_annotated = 0
        /\ body = body_before
        /\ ~panicked

\* C5 witness: a call was made on a document whose widgets field is not a
\* sequence.
C5_Witness ==
    /\ Called
    /\ body_before.k = "obj"
    /\ "widgets" \in DOMAIN body_before.v
    /\ body_before.v["widgets"].k = "obj"

-----------------------------------------------------------------------------
(* SpecMatches: WidgetSelector::matches called on one widget. *)

Alphabet == {"a", "A", "b"}

\* The strings of at most n characters.
Strings(n) == UNION { [1..k -> Alphabet] : k \in 0..n }

\* Widgets with every shape of properties.title.
MatchWidgetPool ==
    { JObj([type |-> JStr(StrMetric),
            properties |-> JObj([title |-> JStr(t), metrics |-> JArr(<<>>)])])
        : t \in Strings(MaxTitleLen) }
    \cup
    { JObj([type |-> JStr(StrMetric)]),                                   \* no properties
      JObj([type |-> JStr(StrMetric), properties |-> Null]),
      JObj([type |-> JStr(StrMetric), properties |-> JArr(<<JStr(<<"a">>)>>)]),
      JObj([type |-> JStr(StrMetric), properties |-> JStr(<<"a">>)]),
      JObj([type |-> JStr(StrMetric),
            properties |-> JObj([metrics |-> JArr(<<>>)])]),              \* no title
      JObj([properties |-> JObj([title |-> JNum(7)])]),
      JObj([properties |-> JObj([title |-> Null])]),
      JObj([properties |-> JObj([title |-> JArr(<<JStr(<<"a">>)>>)])]),
      JObj([properties |-> JObj([title |-> JObj([title |-> JStr(<<"a">>)])])]) }

MatchSelectorPool ==
    { WidgetSelector(NoneVal) }
    \cup { WidgetSelector(Some(f)) : f \in Strings(MaxTitleLen) }

\* The variables of the transform, not in use.
ApplyIdle ==
    /\ body = Null
    /\ ann_obj = NoneVal
    /\ widgets_annotated = 0
    /\ panicked = FALSE
    /\ body_before = Null
    /\ orig_body = Null
    /\ applied = <<>>

InitMatches ==
    /\ ApplyIdle
    /\ ListIdle
    /\ RunIdle
    /\ selector \in MatchSelectorPool
    /\ widget_obj \in MatchWidgetPool
    /\ match_called = FALSE
    /\ match_result = FALSE

\* selector.matches(widget_obj): takes the widget by shared reference.
MatchCall ==
    /\ ~match_called
    /\ match_called' = TRUE
    /\ match_result' = matches(selector, widget_obj)
    /\ UNCHANGED widget_obj
    /\ UNCHANGED <<apply_vars, list_vars, run_vars>>

NextMatches == MatchCall

SpecMatches == InitMatches /\ [][NextMatches]_vars

\* properties.title as the claim reads it: the title when properties is an
\* object whose title is a string, the empty string otherwise.
TitleOrEmpty(w) ==
    IF /\ "properties" \in DOMAIN w.v
       /\ w.v["properties"].k = "obj"
       /\ "title" \in DOMAIN w.v["properties"].v
       /\ w.v["properties"].v["title"].k = "str"
    THEN w.v["properties"].v["title"].v
    ELSE <<>>

\* f occurs in t as a run of equal characters (case-sensitive, literal).
IsSubstring(f, t) ==
    \E i \in 0..(Len(t) - Len(f)) :
        \A j \in 1..Len(f) : t[i + j] = f[j]

-----------------------------------------------------------------------------
(* list_dashboards_with_suffix *)

\* aws_sdk_cloudwatch::types::DashboardEntry, of which the name is read.
DashboardEntry(name) == [dashboard_name |-> name]

\* A ListDashboards response: the entries of a page and its continuation token.
Page(entries, token) == [dashboard_entries |-> entries, next_token |-> token]

\* for entry in entries { if let Some(name) ... if name.ends_with(suffix) { push } }
RECURSIVE collect_entries(_, _, _, _)
collect_entries(entries, i, acc, suf) ==
    IF i > Len(entries) THEN acc
    ELSE LET name == entries[i].dashboard_name
         IN  IF name # NoneVal /\ ends_with(name.v, suf)
             THEN collect_entries(entries, i + 1, Append(acc, name.v), suf)
             ELSE collect_entries(entries, i + 1, acc, suf)

\* Mutant of token_continues: an empty token continues the loop too.
token_present(token) == token # NoneVal

\* match resp.next_token() { Some(t) if !t.is_empty() => ..., _ => break }
token_continues(token) == token # NoneVal /\ token.v # <<>>

\* One pass of the loop whose request is answered with `page`.
ListRequest(page) ==
    /\ list_pc = "loop"
    /\ Len(requests) < MaxPages
    /\ requests' = Append(requests, next_token)
    /\ served' = Append(served, page)
    /\ result' = collect_entries(page.dashboard_entries, 1, result, suffix)
    /\ IF token_continues(page.next_token)
       THEN /\ next_token' = Some(page.next_token.v)
            /\ list_pc' = "loop"
       ELSE /\ next_token' = next_token
            /\ list_pc' = "done"
    /\ UNCHANGED suffix

\* One pass of the loop whose request fails: `.context("failed to list dashboards")?`
ListFail ==
    /\ list_pc = "loop"
    /\ Len(requests) < MaxPages
    /\ requests' = Append(requests, next_token)
    /\ list_pc' = "failed"
    /\ UNCHANGED <<suffix, next_token, result, served>>

-----------------------------------------------------------------------------
(* SpecList: one discovery against a backend that answers each request with *)
(* any page.                                                                *)

NameAP == <<"a", "-", "p">>
NameAPE == <<"a", "-", "p", "e">>
NameBP == <<"b", "-", "P">>
NameP == <<"-", "p">>
NameShort == <<"p">>
NameAPSpace == <<"a", "-", "p", " ">>

EntryListPool ==
    { <<>>,
      <<DashboardEntry(Some(NameAP)), DashboardEntry(Some(NameAPE)),
        DashboardEntry(NoneVal)>>,
      <<DashboardEntry(Some(NameBP)), DashboardEntry(Some(NameP))>>,
      <<DashboardEntry(NoneVal), DashboardEntry(Some(NameShort)),
        DashboardEntry(Some(NameAPSpace)), DashboardEntry(Some(NameAP))>>,
      <<DashboardEntry(Some(NameAPE))>> }

TokenPool == { NoneVal, Some(<<>>), Some(<<"t">>), Some(<<"u">>) }

PagePool == { Page(e, t) : e \in EntryListPool, t \in TokenPool }

SuffixPool == { <<"-", "p">>, <<"p">>, <<>> }

InitList ==
    /\ ApplyIdle
    /\ RunIdle
    /\ selector = WidgetSelector(NoneVal)
    /\ MatchIdle
    /\ suffix \in SuffixPool
    /\ next_token = NoneVal
    /\ result = <<>>
    /\ list_pc = "loop"
    /\ requests = <<>>
    /\ served = <<>>

NextList ==
    \/ \E page \in PagePool :
          ListRequest(page) /\ UNCHANGED <<apply_vars, match_vars, run_vars>>
    \/ ListFail /\ UNCHANGED <<apply_vars, match_vars, run_vars>>

SpecList == InitList /\ [][NextList]_vars

\* The name is some string followed by the suffix, character for character.
EndsWithSuffix(name, suf) ==
    \E n \in 0..Len(name) : SubSeq(name, 1, n) \o suf = name

\* The qualifying names of a page, in the page's order.
RECURSIVE QualifyingOfPage(_, _)
QualifyingOfPage(entries, suf) ==
    IF entries = <<>> THEN <<>>
    ELSE LET e == Head(entries)
         IN  (IF e.dashboard_name # NoneVal /\ EndsWithSuffix(e.dashboard_name.v, suf)
              THEN <<e.dashboard_name.v>> ELSE <<>>)
             \o QualifyingOfPage(Tail(entries), suf)

\* The qualifying names of the pages, in page order.
RECURSIVE QualifyingOfPages(_, _)
QualifyingOfPages(pages, suf) ==
    IF pages = <<>> THEN <<>>
    ELSE QualifyingOfPage(Head(pages).dashboard_entries, suf)
         \o QualifyingOfPages(Tail(pages), suf)

\* The token is absent or empty.
TokenEnds(token) == token = NoneVal \/ token = Some(<<>>)

\* C8: a discovery that returns has requested the first page without a token and
\* every further page once, with the token of the page before it; the page it
\* stopped after is the first whose token is absent or empty; and it returns
\* the qualifying names of all these pages in page order and within-page order.
C8_PaginationCollectsAllPages ==
    /\ Len(requests) = Len(served) + (IF list_pc = "failed" THEN 1 ELSE 0)
    /\ \A i \in DOMAIN requests :
          requests[i] = IF i = 1 THEN NoneVal ELSE served[i - 1].next_token
    /\ \A i \in DOMAIN served :
          TokenEnds(served[i].next_token) <=> (i = Len(served) /\ list_pc = "done")
    /\ list_pc = "done" => result = QualifyingOfPages(served, suffix)

\* C8 witness: a discovery returned after three pages, the last with an empty
\* token, with names of more than one page.
C8_Witness ==
    /\ list_pc = "done"
    /\ Len(served) = 3
    /\ served[3].next_token = Some(<<>>)
    /\ Len(result) > Len(QualifyingOfPage(served[1].dashboard_entries, suffix))
    /\ QualifyingOfPage(served[1].dashboard_entries, suffix) # <<>>

\* The names of the entries served.
ServedNames ==
    UNION { { served[i].dashboard_entries[j].dashboard_name.v :
                j \in { n \in DOMAIN served[i].dashboard_entries :
                          served[i].dashboard_entries[n].dashboard_name # NoneVal } }
            : i \in DOMAIN served }

\* The names in the result.
ResultNames == { result[i] : i \in DOMAIN result }

-----------------------------------------------------------------------------
(* annotate_single_dashboard, annotate_dashboards_by_suffix, run_with_client *)

\* A dashboard the backend holds without a body: dashboard_body() is None.
NoBody == <<Tok("nobody")>>

\* cli.rs: AnnotateOpts (region is read by main only).
AnnotateOpts(dashboard, dashboard_suffix, label, value, time, dry_run, title) ==
    [dashboard |-> dashboard, dashboard_suffix |-> dashboard_suffix,
     label |-> label, value |-> value, time |-> time, dry_run |-> dry_run,
     widget_title_contains |-> title]

Digits == <<"0", "1", "2", "3", "4", "5", "6", "7", "8", "9">>

\* Utc::now().to_rfc3339() at tick t
to_rfc3339(t) == <<"T", Digits[t + 1]>>

\* Utc::now().format("%Y-%m-%d-%H-%M-%S") at tick t
format_stamp(t) == <<"D", Digits[t + 1]>>

\* Mutant of timestamp: the override is not read.
timestamp_ignores_override(time_override, now) == to_rfc3339(now)

\* match time_override { Some(s) => s.to_string(), None => Utc::now().to_rfc3339() }
timestamp(time_override, now) ==
    IF time_override # NoneVal THEN time_override.v ELSE to_rfc3339(now)

\* Mutant of format_label: the value is left out of the label.
format_label_key_only(label, value) == label

\* format!("{label}: {value}")
format_label(label, value) == label \o <<":", " ">> \o value

\* char::to_ascii_lowercase on the characters of the model
to_ascii_lowercase(c) ==
    CASE c = "A" -> "a"
      [] c = "B" -> "b"
      [] c = "P" -> "p"
      [] OTHER -> c

\* char::is_ascii_alphanumeric on the characters of the model
is_ascii_alphanumeric(c) ==
    c \in {"a", "b", "c", "e", "p", "A", "B", "P"} \/ \E i \in DOMAIN Digits : Digits[i] = c

\* save_to_file: the sanitized dashboard name
sanitized_name(dashboard_name) ==
    [i \in DOMAIN dashboard_name |->
        LET c == to_ascii_lowercase(dashboard_name[i])
        IN  IF is_ascii_alphanumeric(c) \/ c = "-" THEN c ELSE "-"]

\* save_to_file: format!("{}-{}.json", ts, sanitized_name)
fname(t, dashboard_name) ==
    format_stamp(t) \o <<"-">> \o sanitized_name(dashboard_name)
    \o <<".", "j", "s", "o", "n">>

\* Mutant of save_to_file: the file is created and nothing is written to it.
save_to_file_empty(content, name, t) ==
    [name |-> name, fname |-> fname(t, name), content |-> <<>>]

\* save_to_file when File::create and write_all succeed: the file written, at
\* tick t.
save_to_file(content, name, t) ==
    [name |-> name, fname |-> fname(t, name), content |-> content]

\* Mutant of after_transform: the dry-run flag is not read.
after_transform_ignores_dry_run(count, dry_run) ==
    IF count = 0 THEN "noop" ELSE "put"

\* Mutant of after_transform: a count of 0 does not return early.
after_transform_ignores_count(count, dry_run) ==
    IF dry_run THEN "dry_run" ELSE "put"

\* annotate_single_dashboard after the transform: which branch is taken.
after_transform(count, dry_run) ==
    IF count = 0 THEN "noop"
    ELSE IF dry_run THEN "dry_run"
    ELSE "put"

\* The name annotate_single_dashboard is working on.
dashboard_name == dashboards[idx]

\* annotate_single_dashboard returned Ok: the `for name in dashboards` loop goes
\* on, or the run returns Ok.
Advance ==
    /\ idx' = idx + 1
    /\ pc' = IF idx + 1 > Len(dashboards) THEN "ok" ELSE "get"
    /\ UNCHANGED dashboards

\* cli.rs: the number of arguments of the group "target" (--dashboard,
\* --dashboard-suffix) that the command line holds.
target_group_count(o) ==
    (IF o.dashboard # NoneVal THEN 1 ELSE 0)
    + (IF o.dashboard_suffix # NoneVal THEN 1 ELSE 0)

\* Mutant of try_parse_from: the group is declared with multiple(true).
try_parse_from_multiple(o) ==
    IF target_group_count(o) >= 1 THEN Some(o) ELSE NoneVal

\* Cli::try_parse_from on a command line that spells the options `o`: the
\* group "target" is required(true) and, ArgGroup's default, not multiple.
try_parse_from(o) ==
    IF target_group_count(o) = 1 THEN Some(o) ELSE NoneVal

\* main: Cli::parse() exits with a usage error, or the client is made and
\* run_with_client is called with the parsed arguments.
Main ==
    /\ pc = "main"
    /\ pc' = IF try_parse_from(opts) # NoneVal THEN "start" ELSE "usage"
    /\ UNCHANGED <<opts, other_writes, store, store0, dashboards, idx, clock, updated_body,
                   get_calls, put_calls, exports, reports>>
    /\ UNCHANGED <<apply_vars, match_vars, list_vars>>

\* Mutant of Start: with both --dashboard and --dashboard-suffix, the single
\* dashboard is taken.
StartPrefersDashboard ==
    /\ pc = "start"
    /\ IF opts.dashboard # NoneVal
       THEN /\ dashboards' = <<opts.dashboard.v>>
            /\ idx' = 1
            /\ pc' = "get"
            /\ UNCHANGED list_vars
       ELSE IF opts.dashboard_suffix # NoneVal
       THEN /\ suffix' = opts.dashboard_suffix.v
            /\ list_pc' = "loop"
            /\ pc' = "list"
            /\ UNCHANGED <<dashboards, idx, next_token, result, requests, served>>
       ELSE /\ pc' = "error"
            /\ UNCHANGED <<dashboards, idx>>
            /\ UNCHANGED list_vars
    /\ UNCHANGED <<opts, other_writes, store, store0, clock, updated_body, get_calls, put_calls,
                   exports, reports>>
    /\ UNCHANGED <<apply_vars, match_vars>>

\* run_with_client up to its first backend call: the selection mode.
Start ==
    /\ pc = "start"
    /\ IF opts.dashboard # NoneVal /\ opts.dashboard_suffix = NoneVal
       THEN /\ dashboards' = <<opts.dashboard.v>>
            /\ idx' = 1
            /\ pc' = "get"
            /\ UNCHANGED list_vars
       ELSE IF opts.dashboard = NoneVal /\ opts.dashboard_suffix # NoneVal
       THEN /\ suffix' = opts.dashboard_suffix.v
            /\ list_pc' = "loop"
            /\ pc' = "list"
            /\ UNCHANGED <<dashboards, idx, next_token, result, requests, served>>
       ELSE /\ pc' = "error"
            /\ UNCHANGED <<dashboards, idx>>
            /\ UNCHANGED list_vars
    /\ UNCHANGED <<opts, other_writes, store, store0, clock, updated_body, get_calls, put_calls,
                   exports, reports>>
    /\ UNCHANGED <<apply_vars, match_vars>>

\* The names of the entries of a page.
PageNames(page) ==
    { page.dashboard_entries[j].dashboard_name.v :
        j \in { n \in DOMAIN page.dashboard_entries :
                  page.dashboard_entries[n].dashboard_name # NoneVal } }

\* Mutant of RunList: a discovery without a qualifying name is an error.
RunListEmptyIsError(page) ==
    /\ pc = "list"
    /\ \A i \in DOMAIN served :
          PageNames(page) \cap PageNames(served[i]) = {}
    /\ ListRequest(page)
    /\ IF list_pc' = "done"
       THEN /\ dashboards' = result'
            /\ idx' = 1
            /\ pc' = IF result' = <<>> THEN "error" ELSE "get"
       ELSE UNCHANGED <<dashboards, idx, pc>>
    /\ UNCHANGED <<opts, other_writes, store, store0, clock, updated_body, get_calls, put_calls,
                   exports, reports>>
    /\ UNCHANGED <<apply_vars, match_vars>>

\* annotate_dashboards_by_suffix: one pass of the listing loop; when the listing
\* is complete, the empty check and the start of the loop over the names.  The
\* backend lists each dashboard name once.
RunList(page) ==
    /\ pc = "list"
    /\ \A i \in DOMAIN served :
          PageNames(page) \cap PageNames(served[i]) = {}
    /\ ListRequest(page)
    /\ IF list_pc' = "done"
       THEN /\ dashboards' = result'
            /\ idx' = 1
            /\ pc' = IF result' = <<>> THEN "ok" ELSE "get"
       ELSE UNCHANGED <<dashboards, idx, pc>>
    /\ UNCHANGED <<opts, other_writes, store, store0, clock, updated_body, get_calls, put_calls,
                   exports, reports>>
    /\ UNCHANGED <<apply_vars, match_vars>>

\* Mutant of RunListFail: the names collected before the failed request are
\* processed.
RunListFailProcessesPartial ==
    /\ pc = "list"
    /\ ListFail
    /\ dashboards' = result
    /\ idx' = 1
    /\ pc' = IF result = <<>> THEN "error" ELSE "get"
    /\ UNCHANGED <<opts, other_writes, store, store0, clock, updated_body,
                   get_calls, put_calls, exports, reports>>
    /\ UNCHANGED <<apply_vars, match_vars>>

\* annotate_dashboards_by_suffix: a list request failed (`.await?`).
RunListFail ==
    /\ pc = "list"
    /\ ListFail
    /\ pc' = "error"
    /\ UNCHANGED <<opts, other_writes, store, store0, dashboards, idx, clock, updated_body,
                   get_calls, put_calls, exports, reports>>
    /\ UNCHANGED <<apply_vars, match_vars>>

\* Mutant of GetFail: the error is logged and the handler returns Ok.
GetFailSwallowed ==
    /\ pc = "get"
    /\ get_calls' = Append(get_calls, dashboard_name)
    /\ Advance
    /\ UNCHANGED <<opts, other_writes, store, store0, clock, updated_body,
                   put_calls, exports, reports>>
    /\ UNCHANGED <<apply_vars, match_vars, list_vars>>

\* annotate_single_dashboard: get_dashboard fails (no such dashboard, network).
GetFail ==
    /\ pc = "get"
    /\ get_calls' = Append(get_calls, dashboard_name)
    /\ pc' = "error"
    /\ UNCHANGED <<opts, other_writes, store, store0, dashboards, idx, clock, updated_body,
                   put_calls, exports, reports>>
    /\ UNCHANGED <<apply_vars, match_vars, list_vars>>

\* annotate_single_dashboard: get_dashboard answers, dt ticks after the call;
\* the handler runs up to its return or to the put_dashboard call.
GetOk(dt) ==
    /\ pc = "get"
    /\ dashboard_name \in DOMAIN store
    /\ get_calls' = Append(get_calls, dashboard_name)
    /\ clock' = clock + dt
    /\ LET body_str == store[dashboard_name]
           parsed == from_str(body_str)
       IN  IF body_str = NoBody \/ ~parsed.ok
           THEN \* "has no body" / "failed to parse dashboard body JSON"
                /\ pc' = "error"
                /\ UNCHANGED <<dashboards, idx, updated_body, reports>>
                /\ UNCHANGED apply_vars
           ELSE
       LET ts == timestamp(opts.time, clock')
           ann == AnnObj(format_label(opts.label, opts.value), ts)
           r == apply_annotation_to_body(parsed.val, ann, selector)
           branch == after_transform(r.count, opts.dry_run)
       IN  /\ body_before' = parsed.val
           /\ body' = r.body
           /\ ann_obj' = ann
           /\ panicked' = r.panicked
           /\ widgets_annotated' = IF r.panicked THEN widgets_annotated ELSE r.count
           /\ UNCHANGED <<selector, orig_body, applied>>
           /\ IF r.panicked
              THEN /\ pc' = "panic"
                   /\ UNCHANGED <<dashboards, idx, updated_body, reports>>
              ELSE IF branch = "noop"
              THEN /\ reports' = Append(reports,
                        [name |-> dashboard_name, kind |-> "noop", count |-> 0])
                   /\ Advance
                   /\ UNCHANGED updated_body
              ELSE IF branch = "dry_run"
              THEN /\ reports' = Append(reports,
                        [name |-> dashboard_name, kind |-> "dry_run", count |-> r.count])
                   /\ Advance
                   /\ UNCHANGED updated_body
              ELSE /\ updated_body' = to_string(r.body)
                   /\ pc' = "put"
                   /\ UNCHANGED <<dashboards, idx, reports>>
    /\ UNCHANGED <<opts, other_writes, store, store0, put_calls, exports>>
    /\ UNCHANGED <<match_vars, list_vars>>

\* Mutant of PutOk: the handler fetches the dashboard again and sends the
\* transform of what the backend holds now.
PutOkMerges(export_ok) ==
    /\ pc = "put"
    /\ LET sent == to_string(apply_annotation_to_body(
                        from_str(store[dashboard_name]).val, ann_obj, selector).body)
       IN  /\ put_calls' = Append(put_calls,
                  [name |-> dashboard_name, body |-> sent, ok |-> TRUE])
           /\ store' = [n \in (DOMAIN store) \cup {dashboard_name} |->
                           IF n = dashboard_name THEN sent ELSE store[n]]
           /\ exports' = Append(exports, save_to_file(sent, dashboard_name, clock))
    /\ reports' = Append(reports,
          [name |-> dashboard_name, kind |-> "annotated", count |-> widgets_annotated])
    /\ Advance
    /\ UNCHANGED <<opts, other_writes, store0, clock, updated_body, get_calls>>
    /\ UNCHANGED <<apply_vars, match_vars, list_vars>>

\* annotate_single_dashboard: put_dashboard succeeds, then save_to_file.  When
\* the file cannot be created or written, the `expect` in save_to_file panics.
PutOk(export_ok) ==
    /\ pc = "put"
    /\ put_calls' = Append(put_calls,
          [name |-> dashboard_name, body |-> updated_body, ok |-> TRUE])
    /\ store' = [n \in (DOMAIN store) \cup {dashboard_name} |->
                    IF n = dashboard_name THEN updated_body ELSE store[n]]
    /\ reports' = Append(reports,
          [name |-> dashboard_name, kind |-> "annotated", count |-> widgets_annotated])
    /\ IF export_ok
       THEN /\ exports' = Append(exports,
                  save_to_file(updated_body, dashboard_name, clock))
            /\ Advance
       ELSE /\ pc' = "panic"
            /\ UNCHANGED <<exports, dashboards, idx>>
    /\ UNCHANGED <<opts, other_writes, store0, clock, updated_body, get_calls>>
    /\ UNCHANGED <<apply_vars, match_vars, list_vars>>

\* Mutant of PutFail: the error is logged and the handler returns Ok.
PutFailSwallowed ==
    /\ pc = "put"
    /\ put_calls' = Append(put_calls,
          [name |-> dashboard_name, body |-> updated_body, ok |-> FALSE])
    /\ Advance
    /\ UNCHANGED <<opts, other_writes, store, store0, clock, updated_body,
                   get_calls, exports, reports>>
    /\ UNCHANGED <<apply_vars, match_vars, list_vars>>

\* Mutant of PutFail: the writes the run made before the failure are undone.
PutFailRollsBack ==
    /\ pc = "put"
    /\ put_calls' = Append(put_calls,
          [name |-> dashboard_name, body |-> updated_body, ok |-> FALSE])
    /\ pc' = "error"
    /\ store' = store0
    /\ UNCHANGED <<opts, other_writes, store0, dashboards, idx, clock, updated_body,
                   get_calls, exports, reports>>
    /\ UNCHANGED <<apply_vars, match_vars, list_vars>>

\* annotate_single_dashboard: put_dashboard fails.
PutFail ==
    /\ pc = "put"
    /\ put_calls' = Append(put_calls,
          [name |-> dashboard_name, body |-> updated_body, ok |-> FALSE])
    /\ pc' = "error"
    /\ UNCHANGED <<opts, other_writes, store, store0, dashboards, idx, clock, updated_body,
                   get_calls, exports, reports>>
    /\ UNCHANGED <<apply_vars, match_vars, list_vars>>

-----------------------------------------------------------------------------
(* Spec: one run of the tool, in either selection mode, against a store of  *)
(* two dashboards.                                                          *)

NameSlashP == <<"A", "/", "p">>

\* The documents of the stored dashboards.
DocOneMetric ==
    JObj([start |-> JStr(<<"h">>),
          widgets |-> JArr(<<
              JObj([type |-> JStr(StrMetric),
                    properties |-> JObj([title |-> TitleAb, metrics |-> JArr(<<>>)])]),
              JObj([type |-> JStr(StrText),
                    properties |-> JObj([markdown |-> JStr(<<"h">>)])]) >>)])

DocTwoMetric ==
    JObj([widgets |-> JArr(<<
              JObj([type |-> JStr(StrMetric),
                    properties |-> JObj([title |-> TitleB])]),
              JObj([type |-> JStr(StrMetric),
                    properties |-> JObj([title |-> TitleAb,
                        annotations |-> JObj([horizontal |-> JArr(<<Ann0>>),
                                              vertical |-> JArr(<<Ann0>>)])])]) >>)])

DocTextOnly ==
    JObj([widgets |-> JArr(<<
              JObj([type |-> JStr(StrText),
                    properties |-> JObj([markdown |-> JStr(<<"h">>)])]) >>)])

DocBadProperties ==
    JObj([widgets |-> JArr(<<
              JObj([type |-> JStr(StrMetric), properties |-> Null]) >>)])

\* A body that is not JSON: the text ends inside the widgets array.
Malformed == << Tok("{"), TokKey("widgets"), Tok(":"), Tok("[") >>

StoredBodyPool ==
    { to_string(DocOneMetric), to_pretty(DocTwoMetric), to_string(DocTextOnly),
      to_pretty(DocBadProperties), Malformed, NoBody }

StoreNames == { NameAP, NameSlashP }

OptsPool ==
    { AnnotateOpts(d, sfx, <<"v">>, <<"1">>, t, dry, f) :
        d \in { NoneVal, Some(NameAP), Some(NameShort) },
        sfx \in { NoneVal, Some(<<"p">>) },
        t \in { NoneVal, Some(<<"x">>) },
        dry \in BOOLEAN,
        f \in { NoneVal, Some(<<"a">>) } }

\* The pages the backend answers a list request with.
RunPagePool ==
    { Page(<<DashboardEntry(Some(NameAP))>>, Some(<<"t">>)),
      Page(<<DashboardEntry(Some(NameAPE)), DashboardEntry(NoneVal)>>, Some(<<"u">>)),
      Page(<<DashboardEntry(Some(NameSlashP)), DashboardEntry(Some(NameShort))>>,
           Some(<<>>)),
      Page(<<DashboardEntry(Some(NameSlashP))>>, NoneVal),
      Page(<<DashboardEntry(Some(NameAP)), DashboardEntry(Some(NameSlashP))>>, NoneVal),
      Page(<<>>, NoneVal) }

Init ==
    /\ MatchIdle
    /\ ListIdle
    /\ opts \in OptsPool
    /\ other_writes = <<>>
    /\ store \in [StoreNames -> StoredBodyPool]
    /\ store0 = store
    /\ pc \in {"main", "start"}
    /\ dashboards = <<>>
    /\ idx = 0
    /\ clock = 0
    /\ updated_body = <<>>
    /\ get_calls = <<>>
    /\ put_calls = <<>>
    /\ exports = <<>>
    /\ reports = <<>>
    /\ selector = WidgetSelector(opts.widget_title_contains)
    /\ body = Null
    /\ ann_obj = NoneVal
    /\ widgets_annotated = 0
    /\ panicked = FALSE
    /\ body_before = Null
    /\ orig_body = Null
    /\ applied = <<>>

Next ==
    \/ Main
    \/ Start
    \/ \E page \in RunPagePool : RunList(page)
    \/ RunListFail
    \/ GetFail
    \/ \E dt \in {0, 1} : GetOk(dt)
    \/ \E export_ok \in BOOLEAN : PutOk(export_ok)
    \/ PutFail

Spec == Init /\ [][Next]_vars

\* C10: with dry-run set, no run calls put_dashboard or writes an export file,
\* and the stored document of every dashboard stays as it was.
C10_DryRunWritesNothing ==
    opts.dry_run =>
        /\ put_calls = <<>>
        /\ exports = <<>>
        /\ store = store0
        /\ pc # "put"

\* C10 witness: a dry run over a batch finished after reporting, for two
\* dashboards, the widgets it would annotate.
C10_Witness ==
    /\ opts.dry_run
    /\ pc = "ok"
    /\ Len(dashboards) = 2
    /\ Len(reports) = 2
    /\ \A i \in DOMAIN reports : reports[i].kind = "dry_run" /\ reports[i].count = 1

-----------------------------------------------------------------------------
(* Properties of a run (Spec). *)

\* C11: when the transform returns 0 for a dashboard, the handler returns Ok
\* with no put_dashboard call and no export, the stored documents stay as they
\* are, and the run goes on with the next discovered name (or returns Ok after
\* the last one); put_dashboard is only ever reached with a count above 0.
C11_ZeroMatchesSkipsWrite ==
    /\ [](pc = "put" => widgets_annotated > 0)
    /\ [][ (/\ pc = "get"
            /\ get_calls' # get_calls
            /\ pc' \notin {"error", "panic"}
            /\ widgets_annotated' = 0)
          => (/\ put_calls' = put_calls
              /\ exports' = exports
              /\ store' = store
              /\ dashboards' = dashboards
              /\ idx' = idx + 1
              /\ pc' = IF idx < Len(dashboards) THEN "get" ELSE "ok") ]_vars

\* C11 witness: in a batch of two, the first dashboard had nothing to annotate
\* and the second was then written.
C11_Witness ==
    /\ opts.dashboard_suffix # NoneVal
    /\ Len(dashboards) = 2
    /\ Len(reports) = 2
    /\ reports[1] = [name |-> dashboards[1], kind |-> "noop", count |-> 0]
    /\ get_calls = dashboards
    /\ Len(put_calls) = 1
    /\ put_calls[1].name = dashboards[2]
    /\ pc = "ok"

\* get_dashboard can answer for the name with a body that parses.
Fetchable(name) ==
    /\ name \in DOMAIN store0
    /\ store0[name] # NoBody
    /\ from_str(store0[name]).ok

\* The document the backend held under the name when the run started.
DocOf(name) == from_str(store0[name]).val

\* The annotation objects a run can build up to now: the label is
\* "{label}: {value}", the value the --time override or the time of a fetch.
RunAnnotations ==
    { AnnObj(format_label(opts.label, opts.value), ts) :
        ts \in IF opts.time # NoneVal THEN {opts.time.v}
               ELSE { to_rfc3339(t) : t \in 0..clock } }

\* `out` is `doc` after the transform with annotation `ann`: the selected
\* widgets have `ann` appended to their vertical list, everything else is kept.
AnnotatedFrom(out, doc, ann) ==
    /\ out.k = "obj" /\ doc.k = "obj"
    /\ DOMAIN out.v = DOMAIN doc.v
    /\ \A key \in DOMAIN doc.v \ {"widgets"} : out.v[key] = doc.v[key]
    /\ Len(Widgets(out)) = Len(Widgets(doc))
    /\ LET sel == Selected(doc)
           ws == Widgets(doc)
           outws == Widgets(out)
       IN  \A i \in DOMAIN ws :
              IF i \in sel
              THEN VerticalList(outws[i]) = Append(VerticalList(ws[i]), ann)
              ELSE outws[i] = ws[i]

\* C12: put_dashboard is called for a name at most once, only without dry-run,
\* only after that name was fetched and parsed and the transform selected at
\* least one widget, and with the compact serialization of the fetched document
\* after the transform; and every dashboard the run has finished with that was
\* fetched and parsed, had a selected widget and ran without dry-run has had
\* its put_dashboard call.
C12_PutExactlyWhenAnnotated ==
    /\ \A i, j \in DOMAIN put_calls :
          put_calls[i].name = put_calls[j].name => i = j
    /\ \A i \in DOMAIN put_calls :
          LET p == put_calls[i]
              doc == DocOf(p.name)
              sent == from_str(p.body)
          IN  /\ ~opts.dry_run
              /\ \E k \in DOMAIN get_calls :
                    k <= idx /\ dashboards[k] = p.name /\ get_calls[k] = p.name
              /\ Fetchable(p.name)
              /\ Selected(doc) # {}
              /\ sent.ok
              /\ p.body = to_string(sent.val)
              /\ \E ann \in RunAnnotations : AnnotatedFrom(sent.val, doc, ann)
    /\ \A k \in DOMAIN dashboards :
          (/\ k < idx
           /\ ~opts.dry_run
           /\ Fetchable(dashboards[k])
           /\ Selected(DocOf(dashboards[k])) # {})
            => \E i \in DOMAIN put_calls : put_calls[i].name = dashboards[k]

\* C12 witness: a batch of two finished; the first dashboard, stored with white
\* space and another key order, was written, the second had no selected widget
\* and was not.
C12_Witness ==
    /\ pc = "ok"
    /\ Len(get_calls) = 2
    /\ Len(put_calls) = 1
    /\ put_calls[1].name = dashboards[1]
    /\ store0[dashboards[1]] # to_string(DocOf(dashboards[1]))
    /\ put_calls[1].body # store0[dashboards[1]]
    /\ Fetchable(dashboards[2])

C14_ExportFailureIsNotFatal ==
    [][ (/\ pc = "put"
         /\ Len(put_calls') = Len(put_calls) + 1
         /\ put_calls'[Len(put_calls')].ok)
          => (/\ idx' = idx + 1
              /\ pc' = IF idx < Len(dashboards) THEN "get" ELSE "ok") ]_vars

\* C15: a put_dashboard call that failed is the last backend call of the run:
\* the run has returned an error, the failing dashboard has no export file, and
\* no dashboard after it has been fetched or written.
C15_PutFailureStopsRun ==
    \A i \in DOMAIN put_calls :
        ~put_calls[i].ok =>
            /\ i = Len(put_calls)
            /\ pc = "error"
            /\ idx \in DOMAIN dashboards
            /\ dashboards[idx] = put_calls[i].name
            /\ Len(get_calls) = idx
            /\ \A e \in DOMAIN exports : exports[e].name # put_calls[i].name

\* C15 witness: in a batch of two, put_dashboard failed for the first dashboard
\* and the second dashboard was left alone.
C15_Witness ==
    /\ pc = "error"
    /\ Len(dashboards) = 2
    /\ Len(put_calls) = 1 /\ ~put_calls[1].ok
    /\ get_calls = <<dashboards[1]>>
    /\ exports = <<>>
    /\ store = store0

\* The run is a batch: --dashboard-suffix alone was given.
Batch == opts.dashboard = NoneVal /\ opts.dashboard_suffix # NoneVal

\* The run has ended with an error or a panic while working on a dashboard.
FailedAtDashboard == pc \in {"error", "panic"} /\ idx >= 1

\* The positions in the discovered list of the names of a call history.
PositionsOf(calls) ==
    { k \in DOMAIN dashboards : \E i \in DOMAIN calls : calls[i].name = dashboards[k] }

\* C16: in a batch, the names fetched so far are the first names of the
\* discovered list, in its order; once a dashboard has failed, it is the last
\* one fetched, and nothing after it is fetched, written or exported; every
\* dashboard that was written holds the body written, every other one the body
\* it had when the run started.
C16_PrefixCommit ==
    Batch =>
        /\ Len(get_calls) <= Len(dashboards)
        /\ get_calls = SubSeq(dashboards, 1, Len(get_calls))
        /\ FailedAtDashboard => Len(get_calls) = idx
        /\ \A k \in PositionsOf(put_calls) \cup PositionsOf(exports) :
              k <= Len(get_calls)
        /\ \A i \in DOMAIN put_calls :
              put_calls[i].ok => store[put_calls[i].name] = put_calls[i].body
        /\ \A n \in DOMAIN store :
              (\A i \in DOMAIN put_calls : ~(put_calls[i].ok /\ put_calls[i].name = n))
                => store[n] = store0[n]

\* C16 witness: discovery found three names; the first dashboard was written
\* and exported, the second failed, the third was not fetched.
C16_Witness ==
    /\ Batch
    /\ Len(dashboards) = 3
    /\ pc = "error"
    /\ Len(get_calls) = 2
    /\ Len(put_calls) >= 1
    /\ put_calls[1].ok
    /\ put_calls[1].name = dashboards[1]
    /\ store[dashboards[1]] = put_calls[1].body
    /\ store[dashboards[1]] # store0[dashboards[1]]
    /\ Len(exports) = 1

\* get_dashboard cannot yield a document for the name from store `st`: there
\* is no such dashboard, it has no body, or its body does not parse.
NoDocument(st, name) ==
    \/ name \notin DOMAIN st
    \/ st[name] = NoBody
    \/ ~from_str(st[name]).ok

\* C17: a handler whose fetch cannot yield a document returns an error with no
\* put_dashboard call and no export; so does every handler that returns an
\* error from its fetch step; no put_dashboard call or export ever names a
\* dashboard without a document; and nothing happens after the error.
C17_FetchOrParseFailureStopsRun ==
    /\ [](\A i \in DOMAIN put_calls : ~NoDocument(store0, put_calls[i].name))
    /\ [](\A i \in DOMAIN exports : ~NoDocument(store0, exports[i].name))
    /\ [][ (/\ pc = "get"
            /\ get_calls' # get_calls
            /\ NoDocument(store, dashboards[idx]))
          => pc' = "error" ]_vars
    /\ [][ (pc = "get" /\ pc' = "error")
          => (/\ put_calls' = put_calls
              /\ exports' = exports
              /\ store' = store
              /\ reports' = reports
              /\ idx' = idx) ]_vars
    /\ [][ pc # "error" ]_vars

\* C17 witness: discovery found three names; the first dashboard was written,
\* the body of the second did not parse, the third was not fetched.
C17_Witness ==
    /\ pc = "error"
    /\ Len(dashboards) = 3
    /\ Len(get_calls) = 2
    /\ Len(put_calls) = 1 /\ put_calls[1].ok
    /\ store[dashboards[2]] = Malformed
    /\ Len(exports) = 1

\* Both of --dashboard and --dashboard-suffix are given, or neither is.
BothOrNeither == (opts.dashboard # NoneVal) <=> (opts.dashboard_suffix # NoneVal)

\* C18: with both selection options or neither, the run makes no list, get or
\* put call and writes nothing; run_with_client returns an error as its first
\* step, and from the command line the parser ends the program before
\* run_with_client is called.
C18_BothOrNeitherIsRejected ==
    /\ [](BothOrNeither =>
            /\ pc \in {"main", "usage", "start", "error"}
            /\ list_pc = "idle"
            /\ requests = <<>>
            /\ get_calls = <<>>
            /\ put_calls = <<>>
            /\ exports = <<>>
            /\ store = store0)
    /\ [][ (BothOrNeither /\ pc = "start") => pc' = "error" ]_vars
    /\ [][ (BothOrNeither /\ pc = "main") => pc' = "usage" ]_vars
    /\ [][ pc # "usage" ]_vars

\* C18 witness: run_with_client, called with both options, has returned its
\* error while the backend holds a dashboard of the given name.
C18_Witness ==
    /\ opts.dashboard # NoneVal
    /\ opts.dashboard_suffix # NoneVal
    /\ opts.dashboard.v \in DOMAIN store
    /\ pc = "error"

\* C19: when the listing of a batch is complete and no name served ends with
\* the suffix, the run has returned Ok, and no get_dashboard or put_dashboard
\* call and no export has been made.
C19_EmptyDiscoveryIsSuccess ==
    (Batch /\ list_pc = "done" /\ QualifyingOfPages(served, suffix) = <<>>) =>
        /\ pc = "ok"
        /\ dashboards = <<>>
        /\ get_calls = <<>>
        /\ put_calls = <<>>
        /\ exports = <<>>
        /\ store = store0

\* C19 witness: a discovery of two pages, which listed a name that holds the
\* suffix but does not end with it, ended without a qualifying name.
C19_Witness ==
    /\ Batch
    /\ list_pc = "done"
    /\ Len(served) = 2
    /\ NameAPE \in ServedNames
    /\ result = <<>>
    /\ pc = "ok"

-----------------------------------------------------------------------------
(* SpecListSameToken: one discovery against a backend that answers every    *)
(* request with a page carrying the same non-empty continuation token.  The *)
(* loop is modelled with `send().await` as its suspension point; the        *)
(* histories keep the first MaxPages requests and pages.                    *)

\* A history with one more entry, while it has room.
record(hist, x) == IF Len(hist) < MaxPages THEN Append(hist, x) ELSE hist

\* The loop builds the request, with the token it holds, and sends it.
ListSend ==
    /\ list_pc = "loop"
    /\ list_pc' = "wait"
    /\ requests' = record(requests, next_token)
    /\ UNCHANGED <<suffix, next_token, result, served>>

\* The response arrives: the entries are filtered and the token decides
\* whether the loop goes on.
ListReceive(page) ==
    /\ list_pc = "wait"
    /\ Len(collect_entries(page.dashboard_entries, 1, result, suffix)) <= MaxListed
    /\ result' = collect_entries(page.dashboard_entries, 1, result, suffix)
    /\ served' = record(served, page)
    /\ IF token_continues(page.next_token)
       THEN /\ next_token' = Some(page.next_token.v)
            /\ list_pc' = "loop"
       ELSE /\ next_token' = next_token
            /\ list_pc' = "done"
    /\ UNCHANGED <<suffix, requests>>

\* The token the backend returns with every page.
SameToken == <<"t">>

SameTokenPagePool == { Page(e, Some(SameToken)) : e \in EntryListPool }

NextListSameToken ==
    \/ ListSend /\ UNCHANGED <<apply_vars, match_vars, run_vars>>
    \/ \E page \in SameTokenPagePool :
          ListReceive(page) /\ UNCHANGED <<apply_vars, match_vars, run_vars>>

\* The program runs on when it can send, and the backend answers every request.
SpecListSameToken ==
    /\ InitList
    /\ [][NextListSameToken]_vars
    /\ WF_vars(ListSend /\ UNCHANGED <<apply_vars, match_vars, run_vars>>)
    /\ WF_vars(\E page \in SameTokenPagePool :
                  ListReceive(page) /\ UNCHANGED <<apply_vars, match_vars, run_vars>>)

\* C20: against a backend that returns the same non-empty continuation token
\* with every page, the discovery eventually stops requesting pages: it
\* returns.
C20_DiscoveryStops == <>(list_pc \in {"done", "failed"})

\* The annotation object the handler has to build for the dashboard it last
\* fetched: "<label>: <value>" and the --time override or the clock reading
\* taken after that fetch.
ExpectedAnnotation ==
    JObj([label |-> JStr(opts.label \o <<":", " ">> \o opts.value),
          value |-> JStr(IF opts.time # NoneVal THEN opts.time.v
                         ELSE to_rfc3339(clock))])

\* C21: the handler builds one annotation object, with label "<label>: <value>"
\* and as value the time override or the clock reading taken after the fetch,
\* and the last element of the vertical list of every widget it annotated
\* equals that object.
C21_OneAnnotationPerDashboard ==
    [][ (pc = "get" /\ get_calls' # get_calls /\ pc' # "error") =>
          (/\ ann_obj' = ExpectedAnnotation'
           /\ \A i \in Grown' :
                 LET vs == VerticalList(Widgets(body')[i])
                 IN  /\ Len(vs) = Len(VerticalList(Widgets(body_before')[i])) + 1
                     /\ vs[Len(vs)] = ExpectedAnnotation') ]_vars

\* C21 witness: without a time override, a handler annotated two widgets of a
\* dashboard it fetched at tick 1.
C21_Witness ==
    /\ Called /\ ~panicked
    /\ opts.time = NoneVal
    /\ clock = 1
    /\ Cardinality(Grown) = 2
    /\ pc = "put"

\* The value fields of the annotations a put_dashboard call wrote: of the last
\* vertical entry of every selected widget of the body it sent.
WrittenValues(p) ==
    LET sent == from_str(p.body).val
        ws == Widgets(sent)
    IN  { VerticalList(ws[i])[Len(VerticalList(ws[i]))].v["value"].v :
            i \in Selected(sent) }

\* C22: in a batch with a time override, every put_dashboard call wrote
\* annotations whose value is the override; without one, every call wrote one
\* clock reading, and the readings of later calls are not earlier than those of
\* the calls before them.
C22_BatchTimestamps ==
    Batch =>
        \A i, j \in DOMAIN put_calls :
            i <= j =>
                LET vi == WrittenValues(put_calls[i])
                    vj == WrittenValues(put_calls[j])
                IN  IF opts.time # NoneVal
                    THEN vi = {opts.time.v} /\ vj = {opts.time.v}
                    ELSE \E t1, t2 \in 0..clock :
                            /\ t1 <= t2
                            /\ vi = {to_rfc3339(t1)}
                            /\ vj = {to_rfc3339(t2)}

\* C22 witness: a batch without a time override wrote two dashboards with
\* different annotation values.
C22_Witness ==
    /\ Batch
    /\ opts.time = NoneVal
    /\ Len(put_calls) = 2
    /\ WrittenValues(put_calls[1]) # WrittenValues(put_calls[2])

-----------------------------------------------------------------------------
(* SpecSingle: one run on a single dashboard, without dry-run, whose stored *)
(* document holds metric widgets with any `properties` of PropsPool or      *)
(* without `properties`.                                                    *)

PathWidgetPool ==
    { JObj([type |-> JStr(StrMetric), properties |-> p]) : p \in PropsPool }
    \cup { JObj([type |-> JStr(StrMetric)]) }

SingleBodyPool ==
    { JObj([widgets |-> JArr(ws)]) :
        ws \in UNION { [1..n -> PathWidgetPool] : n \in 0..MaxWidgets } }

SingleOptsPool ==
    { AnnotateOpts(Some(NameAP), NoneVal, <<"v">>, <<"1">>, NoneVal, FALSE, f) :
        f \in { NoneVal, Some(<<"a">>) } }

InitSingle ==
    /\ MatchIdle
    /\ ListIdle
    /\ opts \in SingleOptsPool
    /\ other_writes = <<>>
    /\ store \in [{NameAP} -> { to_string(b) : b \in SingleBodyPool }]
    /\ store0 = store
    /\ pc = "start"
    /\ dashboards = <<>>
    /\ idx = 0
    /\ clock = 0
    /\ updated_body = <<>>
    /\ get_calls = <<>>
    /\ put_calls = <<>>
    /\ exports = <<>>
    /\ reports = <<>>
    /\ selector = WidgetSelector(opts.widget_title_contains)
    /\ body = Null
    /\ ann_obj = NoneVal
    /\ widgets_annotated = 0
    /\ panicked = FALSE
    /\ body_before = Null
    /\ orig_body = Null
    /\ applied = <<>>

NextSingle ==
    \/ Start
    \/ GetFail
    \/ \E dt \in {0, 1} : GetOk(dt)
    \/ \E export_ok \in BOOLEAN : PutOk(export_ok)
    \/ PutFail

SpecSingle == InitSingle /\ [][NextSingle]_vars

\* The nodes on the path properties.annotations.vertical of a widget object,
\* NoneVal where the path ends before them.
PropsOf(w) ==
    IF "properties" \in DOMAIN w.v THEN w.v["properties"] ELSE NoneVal

AnnsOf(w) ==
    IF PropsOf(w) # NoneVal /\ PropsOf(w).k = "obj"
       /\ "annotations" \in DOMAIN PropsOf(w).v
    THEN PropsOf(w).v["annotations"] ELSE NoneVal

VertOf(w) ==
    IF AnnsOf(w) # NoneVal /\ AnnsOf(w).k = "obj"
       /\ "vertical" \in DOMAIN AnnsOf(w).v
    THEN AnnsOf(w).v["vertical"] ELSE NoneVal

\* A node of the path is present with another type than the path needs.
WrongTyped(w) ==
    \/ PropsOf(w) # NoneVal /\ PropsOf(w).k # "obj"
    \/ AnnsOf(w) # NoneVal /\ AnnsOf(w).k # "obj"
    \/ VertOf(w) # NoneVal /\ VertOf(w).k # "arr"

\* The selected widgets of the fetched document that hold a wrong-typed node.
BadSelected == { i \in Selected(body_before) : WrongTyped(Widgets(body_before)[i]) }

\* C23: the transform panics exactly when a selected metric widget holds a
\* wrong-typed node on the path.  When it returns, every selected widget has
\* the path in place, and a node that was absent holds nothing but what the
\* append needs: properties only annotations, annotations only vertical,
\* vertical only the annotation.  When it panics, the run ends there with no
\* put_dashboard call, no export and the store as it was; the first offending
\* widget still holds its wrong-typed node and no widget after it is touched.
C23_WrongTypeAborts ==
    Called =>
        LET ws == Widgets(body_before)
            outs == Widgets(body)
        IN  /\ panicked <=> BadSelected # {}
            /\ BadSelected = {} =>
                  \A i \in Selected(body_before) :
                      /\ PropsOf(outs[i]) # NoneVal /\ PropsOf(outs[i]).k = "obj"
                      /\ AnnsOf(outs[i]) # NoneVal /\ AnnsOf(outs[i]).k = "obj"
                      /\ VertOf(outs[i]) # NoneVal /\ VertOf(outs[i]).k = "arr"
                      /\ PropsOf(ws[i]) = NoneVal =>
                            DOMAIN PropsOf(outs[i]).v = {"annotations"}
                      /\ AnnsOf(ws[i]) = NoneVal =>
                            DOMAIN AnnsOf(outs[i]).v = {"vertical"}
                      /\ VertOf(ws[i]) = NoneVal =>
                            VertOf(outs[i]).v = <<ann_obj>>
            /\ BadSelected # {} =>
                  LET m == CHOOSE i \in BadSelected : \A j \in BadSelected : i <= j
                  IN  /\ pc = "panic"
                      /\ put_calls = <<>>
                      /\ exports = <<>>
                      /\ store = store0
                      /\ Len(outs) = Len(ws)
                      /\ WrongTyped(outs[m])
                      /\ \A i \in DOMAIN ws : i > m => outs[i] = ws[i]

\* C23 witness: the handler panicked on the second widget of a dashboard,
\* whose vertical node is a string, after annotating the first, which had no
\* properties.
C23_Witness ==
    /\ Called /\ panicked
    /\ pc = "panic"
    /\ BadSelected = {2}
    /\ VertOf(Widgets(body_before)[2]) = JStr(<<"x">>)
    /\ PropsOf(Widgets(body_before)[1]) = NoneVal
    /\ VertOf(Widgets(body)[1]) = JArr(<<ann_obj>>)

\* Object `o` is object `w` with the field `key` added or changed and every
\* other field as it was.
SameExcept(o, w, key) ==
    /\ o.k = "obj" /\ w.k = "obj"
    /\ DOMAIN o.v = DOMAIN w.v \cup {key}
    /\ \A x \in DOMAIN w.v \ {key} : o.v[x] = w.v[x]

\* C24: a call of apply_annotation_to_body keeps the root-level fields other
\* than widgets and the number of widgets; a widget it did not annotate is
\* the same at the same position; an annotated widget keeps every field but
\* properties, its properties every field but annotations, its annotations
\* every field but vertical, and its vertical list its previous entries in
\* their order.
C24_FrameOfTransform ==
    Called =>
        LET ws == Widgets(body_before)
            outs == Widgets(body)
        IN  /\ IF HasWidgetSeq(body_before)
               THEN SameExcept(body, body_before, "widgets") /\ HasWidgetSeq(body)
               ELSE body = body_before
            /\ Len(outs) = Len(ws)
            /\ \A i \in DOMAIN ws :
                  IF i \in Grown
                  THEN /\ SameExcept(outs[i], ws[i], "properties")
                       /\ PropsOf(ws[i]) # NoneVal =>
                             SameExcept(PropsOf(outs[i]), PropsOf(ws[i]), "annotations")
                       /\ AnnsOf(ws[i]) # NoneVal =>
                             SameExcept(AnnsOf(outs[i]), AnnsOf(ws[i]), "vertical")
                       /\ SubSeq(VerticalList(outs[i]), 1, Len(VerticalList(ws[i])))
                             = VerticalList(ws[i])
                  ELSE outs[i] = ws[i]

\* C24 witness: a call annotated a widget that held a title, horizontal
\* annotations and a vertical entry, in a document with another root field.
C24_Witness ==
    /\ Called /\ ~panicked
    /\ HasWidgetSeq(body_before)
    /\ "start" \in DOMAIN body_before.v
    /\ \E i \in Grown :
          /\ AnnsOf(Widgets(body_before)[i]) # NoneVal
          /\ "title" \in DOMAIN PropsOf(Widgets(body_before)[i]).v
          /\ "horizontal" \in DOMAIN AnnsOf(Widgets(body_before)[i]).v
          /\ Len(VerticalList(Widgets(body_before)[i])) = 1

-----------------------------------------------------------------------------
(* SpecRace: one run on a single dashboard while another run of the tool,   *)
(* with its own annotation and no title filter, writes the same dashboard.  *)

\* Another run's write: it fetched `base` (the document as it was when this
\* run started, or as it is now), annotated it and put the result.
OtherWrite(base) ==
    /\ pc \in {"start", "get", "put", "ok", "error", "panic"}
    /\ Len(other_writes) < MaxOtherWrites
    /\ base # NoBody
    /\ from_str(base).ok
    /\ LET r == apply_annotation_to_body(from_str(base).val, Ann2, WidgetSelector(NoneVal))
       IN  /\ ~r.panicked
           /\ r.count > 0
           /\ store' = [store EXCEPT ![NameAP] = to_string(r.body)]
           /\ other_writes' = Append(other_writes,
                  [name |-> NameAP, body |-> to_string(r.body), at |-> pc])
    /\ UNCHANGED <<opts, store0, pc, dashboards, idx, clock, updated_body,
                   get_calls, put_calls, exports, reports>>
    /\ UNCHANGED <<apply_vars, match_vars, list_vars>>

InitRace ==
    /\ MatchIdle
    /\ ListIdle
    /\ opts \in SingleOptsPool
    /\ other_writes = <<>>
    /\ store \in [{NameAP} -> StoredBodyPool]
    /\ store0 = store
    /\ pc = "start"
    /\ dashboards = <<>>
    /\ idx = 0
    /\ clock = 0
    /\ updated_body = <<>>
    /\ get_calls = <<>>
    /\ put_calls = <<>>
    /\ exports = <<>>
    /\ reports = <<>>
    /\ selector = WidgetSelector(opts.widget_title_contains)
    /\ body = Null
    /\ ann_obj = NoneVal
    /\ widgets_annotated = 0
    /\ panicked = FALSE
    /\ body_before = Null
    /\ orig_body = Null
    /\ applied = <<>>

NextRace ==
    \/ Start
    \/ GetFail
    \/ \E dt \in {0, 1} : GetOk(dt)
    \/ \E export_ok \in BOOLEAN : PutOk(export_ok)
    \/ PutFail
    \/ \E stale \in BOOLEAN :
          OtherWrite(IF stale THEN store0[NameAP] ELSE store[NameAP])

SpecRace == InitRace /\ [][NextRace]_vars

\* How often the annotation stands in the vertical lists of a document.
RECURSIVE CountIn(_, _)
CountIn(seq, ann) ==
    IF seq = <<>> THEN 0
    ELSE (IF Head(seq) = ann THEN 1 ELSE 0) + CountIn(Tail(seq), ann)

RECURSIVE CountInWidgets(_, _)
CountInWidgets(ws, ann) ==
    IF ws = <<>> THEN 0
    ELSE CountIn(VerticalList(Head(ws)), ann) + CountInWidgets(Tail(ws), ann)

CountOf(doc, ann) == CountInWidgets(Widgets(doc), ann)

\* C25: a put_dashboard call of the run that succeeds leaves in the store the
\* body the run derived from its own get_dashboard, whatever the store held
\* at the time of the put: the other run's annotation stands in it as often
\* as in the document fetched, not as often as in the document replaced.
C25_LastWriteWins ==
    [][ (/\ pc = "put"
         /\ Len(put_calls') = Len(put_calls) + 1
         /\ put_calls'[Len(put_calls')].ok)
          => (/\ store'[dashboards[idx]] = updated_body
              /\ put_calls'[Len(put_calls')].body = updated_body
              /\ AnnotatedFrom(from_str(updated_body).val, body_before, ann_obj)
              /\ CountOf(from_str(store'[dashboards[idx]]).val, Ann2)
                    = CountOf(body_before, Ann2)) ]_vars

\* C25 witness: the other run wrote its annotation between this run's
\* get_dashboard and put_dashboard; after the put the stored document holds
\* this run's annotation and not the other run's.
C25_Witness ==
    /\ pc = "ok"
    /\ Len(put_calls) = 1 /\ put_calls[1].ok
    /\ Len(other_writes) = 1
    /\ other_writes[1].at = "put"
    /\ CountOf(from_str(other_writes[1].body).val, Ann2) > 0
    /\ store[NameAP] = put_calls[1].body
    /\ CountOf(from_str(store[NameAP]).val, Ann2) = 0
    /\ CountOf(from_str(store[NameAP]).val, ann_obj) > 0

-----------------------------------------------------------------------------
\* C26: in suffix mode no list_dashboards request follows a get_dashboard
\* call; once a dashboard has been fetched the listing has ended on a page
\* without a continuing token and the run works on the qualifying names of all
\* pages served; when a list request fails the run ends in error with no
\* dashboard fetched, written or exported.
C26_ListBeforeFirstGet ==
    /\ [](Batch =>
            /\ (get_calls # <<>> =>
                    /\ list_pc = "done"
                    /\ served # <<>>
                    /\ Len(served) = Len(requests)
                    /\ ~token_continues(served[Len(served)].next_token)
                    /\ dashboards = QualifyingOfPages(served, opts.dashboard_suffix.v))
            /\ (list_pc = "failed" =>
                    /\ pc = "error"
                    /\ get_calls = <<>>
                    /\ put_calls = <<>>
                    /\ exports = <<>>
                    /\ store = store0))
    /\ [][ (Batch /\ requests' # requests) => (get_calls = <<>> /\ get_calls' = <<>>) ]_vars

\* C26 witness: the first page listed a qualifying dashboard that the backend
\* holds, the second list request failed, and the run ended in error.
C26_Witness ==
    /\ Batch
    /\ list_pc = "failed"
    /\ Len(requests) = 2
    /\ result # <<>>
    /\ Fetchable(result[1])
    /\ pc = "error"

=============================================================================
